---- MODULE Spec2Model ----
(***************************************************************************)
(* SimpleLabelDataExporter: the one-time download-token flow (the export   *)
(* branch of the route action, the download route that redeems a token,    *)
(* the clean-up statement) and the unique-barcode allocation (the          *)
(* generateBarcode branch of the route action with utils/barcode).         *)
(*                                                                         *)
(* Time is counted in seconds since the epoch.  Tokens are abstract UUID    *)
(* values 1..NumTokens; crypto.randomUUID() is modelled as drawing a value  *)
(* it has never returned before (its 122 random bits).                      *)
(***************************************************************************)
EXTENDS Integers, Sequences, FiniteSets, TLC

\* ------------------------------------------------------------------ bounds
NumTokens == 2

\* ---------------------------------------------------------- program constants
\* "expires after 15 minutes"
EXPIRY_SECONDS == 900
\* toISOString().split("T")[0] changes every 86400 s
SECONDS_PER_DAY == 86400

Tokens == 1..NumTokens
NoToken == 0

\* The concurrent requests to the action, of one shop's session.
Issuers == {"i1", "i2"}
\* The requests of the unauthenticated download route.
Redeemers == {"r1", "r2"}

\* session.shop
shop(i) == "shop.myshopify.com"

\* formData.get("exportData"): null when the field is missing.
NULL == "<null>"
ExportDataInputs == {NULL, "", "[{a:1}]", "[{b:2}]"}

\* The instants at which the clock is observed: a start, exactly 15 minutes
\* later, and one second after that.
Instants == {0, EXPIRY_SECONDS, EXPIRY_SECONDS + 1}

VARIABLES
    now,            \* the clock, seconds
    downloadToken,  \* the DownloadToken table: a set of rows
    issue,          \* per issuer: the export request in flight (the action's locals)
    redeem,         \* per redeemer: the download request in flight
    last,           \* the request the last step completed, if any, and what its caller received
    hist            \* per token: what has happened to it (history only)

tokenVars == <<now, downloadToken, issue, redeem, last, hist>>

\* ------------------------------------------------------------ export action

\* JavaScript falsiness of a form field: null and "" are falsy.
Falsy_nullOnly(x) == x = NULL
Falsy(x) == x = NULL \/ x = ""

\* new Date().toISOString().split("T")[0]
ISODate(t) ==
    IF t \div SECONDS_PER_DAY = 0 THEN "1970-01-01" ELSE "1970-01-02"

\* `label-export-${date}.xlsx`
FileName(t) == <<"label-export-", ISODate(t), ".xlsx">>
NoName == <<>>

\* `/download?token=${token}`
DownloadUrl(token) == <<"/download?token=", token>>

\* crypto.randomUUID(): the values it can return, `used` being those it returned.
randomUUID_repeating(used) == Tokens
randomUUID(used) == Tokens \ used

Generated == {t \in Tokens : hist[t].generated > 0}

NoResponse == [kind |-> "none", downloadUrl |-> <<>>, fileName |-> NoName, error |-> ""]
ErrorResponse(msg) == [kind |-> "error", downloadUrl |-> <<>>, fileName |-> NoName, error |-> msg]
\* the rejected create propagates out of the action: no value is returned
Thrown == [kind |-> "thrown", downloadUrl |-> <<>>, fileName |-> NoName, error |-> ""]
ExportSuccess(token, fileName) ==
    [kind |-> "success", downloadUrl |-> DownloadUrl(token), fileName |-> fileName, error |-> ""]

NoReply == [status |-> 0, payload |-> "", artifactName |-> NoName]

\* The row db.downloadToken.create writes; createdAt is the column default,
\* CURRENT_TIMESTAMP.
NewRow_dataFromFileName(token, shopName, exportDataJson, fileName, createdAt) ==
    [token |-> token, shop |-> shopName, data |-> fileName[2], fileName |-> fileName,
     createdAt |-> createdAt]
NewRow_dateOnly(token, shopName, exportDataJson, fileName, createdAt) ==
    [token |-> token, shop |-> shopName, data |-> exportDataJson, fileName |-> fileName,
     createdAt |-> (createdAt \div SECONDS_PER_DAY) * SECONDS_PER_DAY]
NewRow(token, shopName, exportDataJson, fileName, createdAt) ==
    [token |-> token, shop |-> shopName, data |-> exportDataJson, fileName |-> fileName,
     createdAt |-> createdAt]

\* CREATE UNIQUE INDEX "DownloadToken_token_key"
TokenKeyAllows(rows, token) == \A r \in rows : r.token # token

RowsOf(rows, token) == {r \in rows : r.token = token}

Bump(h, t, field) == [h EXCEPT ![t][field] = @ + 1]

\* History: the token's row is gone (or was never written); what its export
\* was called with is no longer needed.
Ended(h, t, fate) ==
    [h EXCEPT ![t].fate = fate, ![t].data = NULL, ![t].fileName = NoName,
              ![t].insertedAt = 0]

\* History: the caller receives `response`; it holds the token when the
\* response carries a download URL.
Handed(h, t, response) ==
    IF response.kind = "success" THEN Bump(h, t, "returned") ELSE h

IdleIssue == [pc |-> "idle", exportData |-> NULL, token |-> NoToken, fileName |-> NoName]

\* The last step completed no request.
NoLast ==
    [op |-> "none", exportData |-> NULL, fileName |-> NoName, token |-> NoToken,
     response |-> NoResponse, inserted |-> 0,
     reply |-> NoReply, cause |-> "none", age |-> 0, deleted |-> 0, pending |-> FALSE]

\* History: an export request has completed.
ExportDone(exportDataJson, token, response, inserted) ==
    [op |-> "export", exportData |-> exportDataJson, fileName |-> NoName, token |-> token,
     response |-> response, inserted |-> inserted,
     reply |-> NoReply, cause |-> "none", age |-> 0, deleted |-> 0, pending |-> FALSE]

\* What the action answers to a missing or empty exportData field.
ResponseToNoData_accepted == ExportSuccess(NoToken, NoName)
ResponseToNoData == ErrorResponse("No export data provided")

\* action(): the export branch up to the await of the create.
ExportStart(i, exportDataJson) ==
    /\ issue[i].pc = "idle"
    /\ IF Falsy(exportDataJson)
       THEN /\ last' = ExportDone(exportDataJson, NoToken, ResponseToNoData, 0)
            /\ UNCHANGED <<issue, hist>>
       ELSE \E token \in randomUUID(Generated) :
            /\ issue' = [issue EXCEPT ![i] =
                   [pc |-> "creating", exportData |-> exportDataJson, token |-> token,
                    fileName |-> FileName(now)]]
            /\ hist' = [Bump(hist, token, "generated") EXCEPT
                            ![token].data = exportDataJson,
                            ![token].fileName = FileName(now)]
            /\ last' = NoLast
    /\ UNCHANGED <<now, downloadToken, redeem>>

\* What the action answers once the create has resolved.
ResponseAfterCreate(i) == ExportSuccess(issue[i].token, issue[i].fileName)

\* What the action answers when the create rejects.
ResponseAfterFailure_swallowed(i) == ExportSuccess(issue[i].token, issue[i].fileName)
ResponseAfterFailure(i) == Thrown

\* await db.downloadToken.create(...) resolves; the action returns the URL.
ExportCreate(i) ==
    /\ issue[i].pc = "creating"
    /\ TokenKeyAllows(downloadToken, issue[i].token)
    /\ downloadToken' = downloadToken \cup
           {NewRow(issue[i].token, shop(i), issue[i].exportData, issue[i].fileName, now)}
    /\ issue' = [issue EXCEPT ![i] = IdleIssue]
    /\ last' = ExportDone(issue[i].exportData, issue[i].token, ResponseAfterCreate(i),
                          Cardinality(downloadToken') - Cardinality(downloadToken))
    /\ hist' = Handed([Bump(hist, issue[i].token, "inserted") EXCEPT
                          ![issue[i].token].insertedAt = now],
                      issue[i].token, ResponseAfterCreate(i))
    /\ UNCHANGED <<now, redeem>>

\* await db.downloadToken.create(...) rejects (the store is unreachable, or
\* the unique index refuses the token).
ExportCreateFails(i) ==
    /\ issue[i].pc = "creating"
    /\ issue' = [issue EXCEPT ![i] = IdleIssue]
    /\ last' = ExportDone(issue[i].exportData, issue[i].token, ResponseAfterFailure(i), 0)
    /\ hist' = Handed(Ended(hist, issue[i].token, hist[issue[i].token].fate),
                      issue[i].token, ResponseAfterFailure(i))
    /\ UNCHANGED <<now, downloadToken, redeem>>

\* ------------------------------------------------------------ download route

\* The window is exceeded when the row is older than 15 minutes.
Expired_never(row, t) == FALSE
Expired(row, t) == t - row.createdAt > EXPIRY_SECONDS

\* The table once the row has been taken.
RowsAfterTake_kept(rows, row) == rows
RowsAfterTake(rows, row) == rows \ {row}

\* The HTTP status of each outcome: not found and expired are one outcome.
ExternalStatus_distinct(cause) ==
    CASE cause = "served" -> 200
      [] cause = "expired" -> 410
      [] cause = "badrequest" -> 400
      [] OTHER -> 404
ExternalStatus(cause) ==
    CASE cause = "served" -> 200
      [] cause = "badrequest" -> 400
      [] OTHER -> 403

Reply(cause, payload, artifactName) ==
    [status |-> ExternalStatus(cause), payload |-> payload, artifactName |-> artifactName]

\* Why a lookup finds no row: the token was never issued, was served, or was
\* discarded as expired (history only).
AbsentCause(t) ==
    CASE hist[t].fate = "CONSUMED" -> "consumed"
      [] hist[t].fate = "EXPIRED" -> "discarded"
      [] OTHER -> "unknown"

IdleRedeem == [pc |-> "idle", token |-> NoToken]

\* History: a download request has completed.  pending: the token had been
\* returned by an export and neither served nor discarded since; exportData
\* and fileName are those that export was called with, age the time since
\* it wrote the row.
RedeemDone(token, cause, deleted, reply) ==
    [op |-> "download",
     exportData |-> IF token \in Tokens THEN hist[token].data ELSE NULL,
     fileName |-> IF token \in Tokens THEN hist[token].fileName ELSE NoName,
     token |-> token, response |-> NoResponse, inserted |-> 0,
     reply |-> reply, cause |-> cause, deleted |-> deleted,
     pending |-> token \in Tokens /\ hist[token].returned > 0 /\ hist[token].fate = "NONE",
     age |-> IF token \in Tokens /\ hist[token].inserted > 0 /\ hist[token].fate = "NONE"
             THEN now - hist[token].insertedAt ELSE 0]

\* The request arrives with its token query parameter.
RedeemStart(r, token) ==
    /\ redeem[r].pc = "idle"
    /\ IF token = NoToken
       THEN /\ last' = RedeemDone(token, "badrequest", 0, Reply("badrequest", "", NoName))
            /\ UNCHANGED redeem
       ELSE /\ redeem' = [redeem EXCEPT ![r] = [pc |-> "called", token |-> token]]
            /\ last' = NoLast
    /\ UNCHANGED <<now, downloadToken, issue, hist>>

\* Look the row up by token and take it: one atomic fetch-and-delete.
RedeemTake(r) ==
    /\ redeem[r].pc = "called"
    /\ redeem' = [redeem EXCEPT ![r] = IdleRedeem]
    /\ LET t == redeem[r].token
           found == RowsOf(downloadToken, t)
       IN  IF found = {}
           THEN /\ last' = RedeemDone(t, AbsentCause(t), 0, Reply("notfound", "", NoName))
                /\ UNCHANGED <<downloadToken, hist>>
           ELSE \E row \in found :
                /\ downloadToken' = RowsAfterTake(downloadToken, row)
                /\ IF Expired(row, now)
                   THEN /\ last' = RedeemDone(t, "expired",
                               Cardinality(downloadToken) - Cardinality(downloadToken'),
                               Reply("expired", "", NoName))
                        /\ hist' = Ended(hist, t, "EXPIRED")
                   ELSE /\ last' = RedeemDone(t, "served",
                               Cardinality(downloadToken) - Cardinality(downloadToken'),
                               Reply("served", row.data, row.fileName))
                        /\ hist' = Ended(Bump(hist, t, "served"), t, "CONSUMED")
    /\ UNCHANGED <<now, issue>>

\* ------------------------------------------------------------------ clean-up

\* DELETE FROM "DownloadToken" WHERE "createdAt" < NOW() - INTERVAL '15 minutes'
SweepDeletes_atWindow(row, t) == row.createdAt <= t - EXPIRY_SECONDS
SweepDeletes(row, t) == row.createdAt < t - EXPIRY_SECONDS

\* The table after the statement has run at time t.
SweepResult(rows, t) == {row \in rows : ~SweepDeletes(row, t)}

\* History: the clean-up statement has completed, having deleted n rows.
SweepDone(n) == [NoLast EXCEPT !.op = "sweep", !.deleted = n]

Sweep ==
    /\ downloadToken' = SweepResult(downloadToken, now)
    /\ hist' = [t \in Tokens |->
                   IF \E row \in downloadToken : row.token = t /\ SweepDeletes(row, now)
                   THEN Ended(hist, t, "EXPIRED")[t]
                   ELSE hist[t]]
    /\ last' = SweepDone(Cardinality(downloadToken) - Cardinality(downloadToken'))
    /\ UNCHANGED <<now, issue, redeem>>

\* ------------------------------------------------------------------- the clock
Tick(t) ==
    /\ t > now
    /\ now' = t
    /\ last' = NoLast
    /\ UNCHANGED <<downloadToken, issue, redeem, hist>>

\* ============================================================ barcode allocator

\* ------------------------------------------------------------------ bounds
\* Math.random() is sampled at RandomGrain values of [0, 1).
RandomGrain == 2
\* The variants of the shop's catalog.
NumVariants == 3

\* ---------------------------------------------------------- program constants
min == 10000000
max == 99999999
maxAttempts == 10

Variants == 1..NumVariants
\* The requests to the action's generateBarcode branch.
Allocators == {"a1", "a2"}
\* The requests that are made one after the other.
Serial == {"a1"}

VARIABLES
    catalog,    \* the shop's catalog: the barcode of each variant
    alloc       \* per allocator: the generateBarcode request, then its response

allocVars == <<catalog, alloc>>

\* Number.prototype.toString(): the decimal digits, most significant first.
RECURSIVE toString(_)
toString(n) == IF n < 10 THEN <<n>> ELSE Append(toString(n \div 10), n % 10)

\* variant.barcode of a variant that has none
NoBarcode == <<>>

\* Math.random() returns k / RandomUnit, 0 <= k < RandomUnit.
RandomUnit == 536870912

\* The numerator of the n-th sample of Math.random(): from 0 upwards, the
\* last sample being the largest value below 1.
random(n) ==
    IF n = RandomGrain - 1 THEN RandomUnit - 1 ELSE n * (RandomUnit \div RandomGrain)

\* <<q, r>> with a * b = q * d + r and 0 <= r < d, by doubling (no product
\* leaves the 32-bit range while 2 * d + b does not).
RECURSIVE MulDivMod(_, _, _)
MulDivMod(a, b, d) ==
    IF a = 0 THEN <<0, 0>>
    ELSE LET h == MulDivMod(a \div 2, b, d)
             s == 2 * h[2] + (a % 2) * b
         IN  <<2 * h[1] + (s \div d), s % d>>

\* Math.floor(Math.random() * k)
FloorOfRandomTimes(n, k) == MulDivMod(random(n), k, RandomUnit)[1]

\* Math.floor(Math.random() * (max - min + 1)) + min
generateRandomBarcode_widerSpan(n) == FloorOfRandomTimes(n, max - min + 2) + min
generateRandomBarcode(n) == FloorOfRandomTimes(n, max - min + 1) + min

\* generateRandomBarcode().toString() for each sample of Math.random().
barcodeOf == [n \in 0..(RandomGrain - 1) |-> toString(generateRandomBarcode(n))]

\* The strings generateRandomBarcode().toString() can give.
Candidates == {barcodeOf[n] : n \in 0..(RandomGrain - 1)}

\* checkBarcodeExists: data.data.products.edges.length > 0 for `barcode:${barcode}`
checkBarcodeExists(cat, barcode) == \E v \in Variants : cat[v] = barcode

\* generateUniqueBarcode: for (let attempt = 0; attempt < maxAttempts; attempt++)
LoopContinues_oneMore(attempt) == attempt <= maxAttempts
LoopContinues(attempt) == attempt < maxAttempts

\* generateUniqueBarcode: the loop returns the candidate when it does not exist.
LoopReturns_inverted(exists) == exists
LoopReturns(exists) == ~exists

\* The barcode the action sends in the mutation and in its response.
newBarcode_regenerated(a) == toString(generateRandomBarcode(0))
newBarcode(a) == alloc[a].barcode

IdleAlloc ==
    [pc |-> "idle", variantId |-> 0, attempt |-> 0, barcode |-> NoBarcode,
     checks |-> 0, collisions |-> 0, writes |-> 0, lastChecked |-> NoBarcode,
     lastAnswer |-> "none", update |-> "none", replaced |-> NoBarcode,
     kind |-> "none", returned |-> NoBarcode, error |-> ""]

\* The action returns; kind, returned and error are its response.
AllocDone(rec, kind, returned, error) ==
    [rec EXCEPT !.pc = "done", !.kind = kind, !.returned = returned, !.error = error]

\* The message of the error generateUniqueBarcode throws after the loop.
ExhaustedMessage ==
    "Unable to generate unique barcode after 10 attempts. Please try again or contact support."

\* action(): the generateBarcode branch up to the first existence check.
\* variantId and productId are 0 when the form field is missing.
GenerateStart(a, variantId, productId) ==
    /\ alloc[a].pc \in {"idle", "done"}
    /\ IF variantId = 0 \/ productId = 0
       THEN alloc' = [alloc EXCEPT ![a] =
                AllocDone(IdleAlloc, "error", NoBarcode, "No variant ID or product ID provided")]
       ELSE \E n \in 0..(RandomGrain - 1) :
            alloc' = [alloc EXCEPT ![a] =
                [IdleAlloc EXCEPT !.pc = "checking", !.variantId = variantId,
                                  !.barcode = barcodeOf[n]]]
    /\ UNCHANGED catalog

\* await checkBarcodeExists(admin, barcode) resolves.
CheckResolves(a) ==
    /\ alloc[a].pc = "checking"
    /\ LET exists == checkBarcodeExists(catalog, alloc[a].barcode)
           rec == [alloc[a] EXCEPT !.checks = @ + 1,
                                   !.collisions = IF exists THEN @ + 1 ELSE @,
                                   !.lastChecked = alloc[a].barcode,
                                   !.lastAnswer = IF exists THEN "exists" ELSE "free"]
       IN  IF LoopReturns(exists)
           THEN alloc' = [alloc EXCEPT ![a] = [rec EXCEPT !.pc = "updating"]]
           ELSE IF LoopContinues(rec.attempt + 1)
                THEN \E n \in 0..(RandomGrain - 1) :
                     alloc' = [alloc EXCEPT ![a] =
                         [rec EXCEPT !.attempt = @ + 1,
                                     !.barcode = barcodeOf[n]]]
                ELSE alloc' = [alloc EXCEPT ![a] =
                         AllocDone([rec EXCEPT !.attempt = @ + 1], "error", NoBarcode,
                                   ExhaustedMessage)]
    /\ UNCHANGED catalog

\* checkBarcodeExists catches the failed query and throws; the throw leaves
\* generateUniqueBarcode and the action's catch answers with its message.
AfterCheckFailure_retried(rec) == [rec EXCEPT !.attempt = @ + 1, !.collisions = @ + 1]
AfterCheckFailure(rec) ==
    AllocDone(rec, "error", NoBarcode, "Failed to verify barcode uniqueness")

\* The existence query itself fails.
CheckThrows(a) ==
    /\ alloc[a].pc = "checking"
    /\ alloc' = [alloc EXCEPT ![a] =
           AfterCheckFailure([alloc[a] EXCEPT !.checks = @ + 1,
                                              !.lastChecked = alloc[a].barcode,
                                              !.lastAnswer = "failed"])]
    /\ UNCHANGED catalog

\* productVariantsBulkUpdate succeeds: the variant carries the barcode.
UpdateResolves(a) ==
    /\ alloc[a].pc = "updating"
    /\ catalog' = [catalog EXCEPT ![alloc[a].variantId] = newBarcode(a)]
    /\ alloc' = [alloc EXCEPT ![a] =
           AllocDone([alloc[a] EXCEPT !.writes = @ + 1, !.update = "stored",
                                      !.replaced = catalog[alloc[a].variantId]],
                     "success", newBarcode(a), "")]

\* What the action answers to userErrors in the mutation's payload.
AfterUserErrors_ignored(rec) == AllocDone(rec, "success", rec.barcode, "")
AfterUserErrors(rec) == AllocDone(rec, "error", NoBarcode, "Failed to update barcode")

\* productVariantsBulkUpdate answers with userErrors: nothing is stored.
UpdateUserErrors(a) ==
    /\ alloc[a].pc = "updating"
    /\ alloc' = [alloc EXCEPT ![a] = AfterUserErrors([alloc[a] EXCEPT !.update = "userErrors"])]
    /\ UNCHANGED catalog

\* What the action's catch answers when the mutation request throws.
AfterUpdateThrows_swallowed(rec) == AllocDone(rec, "success", rec.barcode, "")
AfterUpdateThrows(rec) == AllocDone(rec, "error", NoBarcode, "Failed to generate barcode")

\* The mutation request itself fails: nothing is stored.
UpdateThrows(a) ==
    /\ alloc[a].pc = "updating"
    /\ alloc' = [alloc EXCEPT ![a] = AfterUpdateThrows([alloc[a] EXCEPT !.update = "threw"])]
    /\ UNCHANGED catalog

\* ================================================================ search input

\* ------------------------------------------------------------------ bounds
\* The keystrokes of one mount of the page.
MaxKeystrokes == 3
\* The clock of the page runs to MaxClockSteps steps of ClockStep ms.
MaxClockSteps == 6

\* ---------------------------------------------------------- program constants
\* setTimeout(..., 500)
DEBOUNCE_MS == 500

\* The grain of the page's clock, ms.
ClockStep == DEBOUNCE_MS \div 2

\* e.target.value
SearchValues == {"", "a", "ab"}

\* debounceTimer.current before the first setTimeout
NoTimer == 0

VARIABLES
    clockMs,        \* the page's clock, ms
    mounted,        \* ExportPage is mounted
    searchInput,    \* useState: the value shown in the search field
    debounceTimer,  \* useRef: the id of the timer set last, or NoTimer
    timers,         \* the browser's pending timeouts: [id, due, value]
    typing,         \* history: keystrokes so far, the time of the last, its burst
    submits,        \* history: per burst, the search submissions made
    fired           \* the submission the last step made, if any

searchVars == <<clockMs, mounted, searchInput, debounceTimer, timers, typing, submits, fired>>

\* clearTimeout(id): the timeout with that id, if still pending, is cancelled.
clearTimeout_ignored(pending, id) == pending
clearTimeout(pending, id) == {t \in pending : t.id # id}

\* setTimeout(callback, 500) returns an id not in use; the callback closes over value.
setTimeout(pending, id, value, burst) ==
    pending \cup {[id |-> id, due |-> clockMs + DEBOUNCE_MS, value |-> value, burst |-> burst]}

NothingFired == [op |-> "none", value |-> "", sinceKey |-> 0, mounted |-> TRUE, shown |-> ""]

Bursts == 1..MaxKeystrokes

\* History: a keystroke opens a burst when it is the first or comes 500 ms
\* or more after the keystroke before it.
BurstOf(t) ==
    IF typing.keys = 0 \/ t - typing.lastKeyAt >= DEBOUNCE_MS
    THEN typing.burst + 1 ELSE typing.burst

\* handleSearchChange(e), e.target.value = value
handleSearchChange(value) ==
    /\ mounted
    /\ typing.keys < MaxKeystrokes
    /\ searchInput' = value
    /\ LET id == typing.keys + 1
           cleared == IF debounceTimer # NoTimer
                      THEN clearTimeout(timers, debounceTimer) ELSE timers
       IN  /\ timers' = setTimeout(cleared, id, value, BurstOf(clockMs))
           /\ debounceTimer' = id
    /\ typing' = [keys |-> typing.keys + 1, lastKeyAt |-> clockMs, burst |-> BurstOf(clockMs)]
    /\ fired' = NothingFired
    /\ UNCHANGED <<clockMs, mounted, submits>>

\* The timeout's callback runs: submit(formData, { method: "get" }) with the
\* value it closed over.  A timeout runs at its due time or later.
TimerFires(t) ==
    /\ t \in timers
    /\ clockMs >= t.due
    /\ timers' = timers \ {t}
    /\ submits' = [submits EXCEPT ![t.burst] = @ + 1]
    /\ fired' = [op |-> "submit", value |-> t.value, sinceKey |-> clockMs - typing.lastKeyAt,
                 mounted |-> mounted, shown |-> searchInput]
    /\ UNCHANGED <<clockMs, mounted, searchInput, debounceTimer, typing>>

\* The cleanup of the effect with no dependencies: runs when the page unmounts.
Unmount ==
    /\ mounted
    /\ mounted' = FALSE
    /\ timers' = IF debounceTimer # NoTimer THEN clearTimeout(timers, debounceTimer) ELSE timers
    /\ fired' = NothingFired
    /\ UNCHANGED <<clockMs, searchInput, debounceTimer, typing, submits>>

\* Time passes on the page.
Advance ==
    /\ clockMs < MaxClockSteps * ClockStep
    /\ clockMs' = clockMs + ClockStep
    /\ fired' = NothingFired
    /\ UNCHANGED <<mounted, searchInput, debounceTimer, timers, typing, submits>>

SearchInit ==
    /\ clockMs = 0
    /\ mounted = TRUE
    /\ searchInput = ""
    /\ debounceTimer = NoTimer
    /\ timers = {}
    /\ typing = [keys |-> 0, lastKeyAt |-> 0, burst |-> 0]
    /\ submits = [b \in Bursts |-> 0]
    /\ fired = NothingFired

SearchNext ==
    \/ \E value \in SearchValues : handleSearchChange(value)
    \/ \E t \in timers : TimerFires(t)
    \/ Unmount
    \/ Advance

\* ====================================================== selection and quantities

\* ------------------------------------------------------------------ bounds
\* The stepper is followed up to this quantity (and again from 1000 on).
MaxStepped == 3
\* The events handled before the page renders again, when renders are late.
MaxBatch == 2

\* ---------------------------------------------------------- program constants
\* "Maximum quantity is 1000 labels per variant"
MAX_QUANTITY == 1000

\* The variants of the shop that the page can load.
PageVariants == {"A", "B"}

\* variant.inventoryQuantity of a variant: oversold, none, some, a large stock.
Inventories == {-1, 0, 2, MAX_QUANTITY + 1}

\* The lists the loader can return: every variant, or the matches of a search.
Loads == {<<"A", "B">>, <<"B">>, <<>>}

\* labelQuantities[variantId] of a variant whose quantity was not customized.
undefined == -1

\* parseInt(value, 10) of text that does not start with a number.
NaN == -2

\* The values handleQuantityChange is called with: text, a negative number,
\* 0, a quick-set value, the maximum, one above it.
QuantityInputs == {NaN, -1, 0, 3, MAX_QUANTITY, MAX_QUANTITY + 1}

VARIABLES
    page,   \* React state: selectedIds, labelQuantities, variants; and the shop's stock
    seen,   \* the state as of the last render: what the handlers' closures read
    unrendered, \* the events handled since the last render
    did     \* the event the last step handled, and what it did (history only)

pageVars == <<page, seen, unrendered, did>>

Includes(seq, x) == \E i \in 1..Len(seq) : seq[i] = x

\* array.filter(keep) for arrays of ids
RECURSIVE Filter(_, _)
Filter(seq, keep) ==
    IF seq = <<>> THEN <<>>
    ELSE IF Head(seq) \in keep THEN <<Head(seq)>> \o Filter(Tail(seq), keep)
         ELSE Filter(Tail(seq), keep)

Ids(seq) == {seq[i] : i \in 1..Len(seq)}

\* variant?.inventoryQuantity || 0, variant = variants.find(v => v.id === id)
InventoryOf(s, id) == IF Includes(s.variants, id) THEN s.stock[id] ELSE 0

\* getEffectiveQuantity(variantId, variant)
getEffectiveQuantity(s, id) ==
    IF s.labelQuantities[id] # undefined THEN s.labelQuantities[id] ELSE InventoryOf(s, id)

\* ids.reduce((sum, id) => sum + getEffectiveQuantity(id, ...), 0)
RECURSIVE SumQuantities(_, _)
SumQuantities(s, ids) ==
    IF ids = <<>> THEN 0
    ELSE getEffectiveQuantity(s, Head(ids)) + SumQuantities(s, Tail(ids))

\* handleQuantityChange: the values it returns on without changing anything.
QuantityRejected(numValue) == numValue = NaN \/ numValue < 0 \/ numValue > MAX_QUANTITY

\* if (!selectedIds.includes(variantId)) setSelectedIds(prev => [...prev, variantId])
AutoSelect_never(prev, rendered, variantId) == prev
AutoSelect(prev, rendered, variantId) ==
    IF ~Includes(rendered, variantId) THEN Append(prev, variantId) ELSE prev

\* handleQuantityChange(variantId, value): the state it leaves, s being the
\* render its closure belongs to and p the state its updates apply to.
handleQuantityChange(s, p, variantId, numValue) ==
    IF QuantityRejected(numValue) THEN p
    ELSE [p EXCEPT !.labelQuantities[variantId] = numValue,
                   !.selectedIds = AutoSelect(@, s.selectedIds, variantId)]

\* handleSelectOne(id): prev.includes(id) ? prev.filter(i => i !== id) : [...prev, id]
handleSelectOne(p, id) ==
    [p EXCEPT !.selectedIds =
        IF Includes(@, id) THEN Filter(@, PageVariants \ {id}) ELSE Append(@, id)]

\* handleSelectAll(e): every rendered variant, or none
handleSelectAll(s, p, checked) ==
    [p EXCEPT !.selectedIds = IF checked THEN s.variants ELSE <<>>]

\* handleResetQuantities / handleResetSingleQuantity
handleResetQuantities(p) ==
    [p EXCEPT !.labelQuantities = [v \in PageVariants |-> undefined]]
handleResetSingleQuantity(p, id) ==
    [p EXCEPT !.labelQuantities[id] = undefined]

\* handleExport: if (totalLabels === 0) return
NothingToExport(totalLabels) == totalLabels = 0

\* handleExport: the rows pushed for a variant of the given quantity
\* (none for 0; for (let i = 0; i < quantity; i++) otherwise).
RowsFor(quantity) == IF quantity > 0 THEN quantity ELSE 0

\* handleExport: exportData as the number of rows each variant has in it.
ExportRows(s) ==
    [v \in PageVariants |->
        IF Includes(s.variants, v) /\ Includes(s.selectedIds, v)
        THEN RowsFor(getEffectiveQuantity(s, v)) ELSE 0]

\* exportData.length
RECURSIVE Total(_, _)
Total(rows, vs) ==
    IF vs = {} THEN 0
    ELSE LET v == CHOOSE x \in vs : TRUE IN rows[v] + Total(rows, vs \ {v})

NoRows == [v \in PageVariants |-> 0]

\* History: what the last step did.
Quiet == [op |-> "none", variant |-> "", value |-> 0, accepted |-> FALSE, submitted |-> FALSE,
          exportData |-> NoRows, toastTotal |-> 0, shownTotal |-> 0]

QuantityEvent(variantId, numValue) ==
    [Quiet EXCEPT !.op = "quantity", !.variant = variantId, !.value = numValue,
                  !.accepted = ~QuantityRejected(numValue)]

\* A quantity the stepper is followed to.
Stepped(q) == q <= MaxStepped \/ q >= MAX_QUANTITY

\* A call of handleQuantityChange from the stepper, the quick-set buttons or
\* with a direct value, for a rendered variant.
QuantityChange ==
    \E id \in PageVariants :
        /\ Includes(seen.variants, id)
        /\ \E numValue \in
               QuantityInputs \cup {1, 2, 3}
               \cup {q \in {getEffectiveQuantity(seen, id) + 1} : Stepped(q)}
               \cup {q \in {getEffectiveQuantity(seen, id) - 1} :
                        getEffectiveQuantity(seen, id) > 0 /\ Stepped(q)} :
              /\ page' = handleQuantityChange(seen, page, id, numValue)
              /\ did' = QuantityEvent(id, numValue)

SelectOne ==
    \E id \in PageVariants :
        /\ Includes(seen.variants, id)
        /\ page' = handleSelectOne(page, id)
        /\ did' = Quiet

SelectAll ==
    \E checked \in BOOLEAN :
        /\ page' = handleSelectAll(seen, page, checked)
        /\ did' = Quiet

ResetQuantities ==
    /\ \/ page' = handleResetQuantities(page)
       \/ \E id \in PageVariants :
              /\ seen.labelQuantities[id] # undefined
              /\ page' = handleResetSingleQuantity(page, id)
    /\ did' = Quiet

\* The loader has run again (a search): useEffect(() => setVariants(initialVariants))
Reload ==
    \E load \in Loads :
        /\ page' = [page EXCEPT !.variants = load]
        /\ did' = Quiet

\* handleExport(), on the state of the render it belongs to; shownTotal is
\* the totalLabels of that render (Export button, sticky action bar).
Export ==
    /\ page' = page
    /\ LET selectedVariants == Filter(seen.variants, Ids(seen.selectedIds))
           totalLabels == SumQuantities(seen, selectedVariants)
       IN  did' = [Quiet EXCEPT
                      !.op = "export",
                      !.submitted = Len(seen.selectedIds) # 0 /\ ~NothingToExport(totalLabels),
                      !.exportData = IF Len(seen.selectedIds) # 0 /\ ~NothingToExport(totalLabels)
                                     THEN ExportRows(seen) ELSE NoRows,
                      !.toastTotal = totalLabels,
                      !.shownTotal = SumQuantities(seen, seen.selectedIds)]

\* The page is opened on a shop of one of these stocks: nothing is selected,
\* no quantity is customized, every variant is listed.
PageOpened(stocks) ==
    /\ page \in {[selectedIds |-> <<>>,
                  labelQuantities |-> [v \in PageVariants |-> undefined],
                  variants |-> <<"A", "B">>,
                  stock |-> stock] : stock \in stocks}
    /\ seen = page
    /\ unrendered = 0
    /\ did = Quiet

PageInit == PageOpened([PageVariants -> Inventories])

\* The page of a shop with nothing in stock, on which nothing is done.
PageAtRest == PageOpened({[v \in PageVariants |-> 0]})

PageSteps ==
    \/ QuantityChange
    \/ SelectOne
    \/ SelectAll
    \/ ResetQuantities
    \/ Reload
    \/ Export

\* Every event is rendered before the next one is handled.
PageNext == PageSteps /\ seen' = page' /\ unrendered' = 0

\* The page renders the state its events have left.
Render ==
    /\ unrendered > 0
    /\ seen' = page
    /\ unrendered' = 0
    /\ did' = Quiet
    /\ UNCHANGED page

\* Up to MaxBatch events are handled before the page renders again: the
\* handlers of the later ones still read the older render.
BatchNext ==
    \/ PageSteps /\ unrendered < MaxBatch /\ unrendered' = unrendered + 1 /\ seen' = seen
    \/ Render

\* ============================================================ export response

\* ------------------------------------------------------------------ bounds
\* The export responses with a download URL that one page receives.
MaxUrls == 5

\* The download URLs, each of a token of its own.
Urls == 1..MaxUrls
NoUrl == 0

VARIABLES
    dl      \* the export fetcher's data, downloadInitiatedRef, the hidden iframes;
            \* history: the iframes created per URL, whether the effect has run again

\* downloadInitiatedRef.current === downloadUrl
AlreadyInitiated_never(ref, downloadUrl) == FALSE
AlreadyInitiated(ref, downloadUrl) == ref = downloadUrl

\* The effect on [fetcher.data, shopify, variants, selectedIds]: d is the
\* state it runs in.
exportResponseEffect(d) ==
    IF d.data.kind = "success"
    THEN IF AlreadyInitiated(d.ref, d.data.downloadUrl)
         THEN d
         ELSE [d EXCEPT !.ref = d.data.downloadUrl,
                        !.iframe[d.data.downloadUrl] = "attached",
                        !.created[d.data.downloadUrl] = @ + 1]
    ELSE d

\* fetcher.data becomes the answer to an export: a success with a URL not
\* returned before, or an error; the effect runs.
ExportResponseArrives ==
    \/ /\ dl.issued < MaxUrls
       /\ dl' = exportResponseEffect(
                   [dl EXCEPT !.issued = @ + 1, !.reran = FALSE,
                              !.data = [kind |-> "success", downloadUrl |-> dl.issued + 1]])
    \/ dl' = exportResponseEffect(
                [dl EXCEPT !.reran = FALSE, !.data = [kind |-> "error", downloadUrl |-> NoUrl]])

\* variants or selectedIds change: the effect runs again on the same data.
EffectRunsAgain == dl' = exportResponseEffect([dl EXCEPT !.reran = TRUE])

\* setTimeout(..., 5000): if (iframe.parentNode) document.body.removeChild(iframe)
IframeCleanup ==
    \E u \in Urls :
        /\ dl.iframe[u] = "attached"
        /\ dl' = [dl EXCEPT !.iframe[u] = "removed"]

DownloadInit ==
    dl = [data |-> [kind |-> "none", downloadUrl |-> NoUrl], ref |-> NoUrl, issued |-> 0,
          reran |-> FALSE,
          iframe |-> [u \in Urls |-> "none"], created |-> [u \in Urls |-> 0]]

DownloadNext ==
    \/ ExportResponseArrives
    \/ EffectRunsAgain
    \/ IframeCleanup

\* ========================================================== Generate button

\* ------------------------------------------------------------------ bounds
\* The clicks on Generate made on one page.
MaxClicks == 3

Clicks == 1..MaxClicks
NoClick == 0

\* generatingBarcodeFor when no request is marked.
null == "null"

VARIABLES
    gen     \* generatingBarcodeFor, the page's barcodes, barcodeFetcher, the server's requests

\* The Generate button of a row: rendered when !variant.barcode, disabled
\* when generatingBarcodeFor === variant.id.
GenerateEnabled(g, v) == ~g.hasBarcode[v] /\ g.generatingBarcodeFor # v

\* The requests of variant v the server has received and not answered.
InFlight(g, v) == {c \in g.atServer : g.variantOf[c] = v}

\* handleGenerateBarcode(variantId, productId): the marker is set and
\* barcodeFetcher submits, which replaces the submission it had in flight.
ClickGenerate ==
    \E v \in PageVariants :
        /\ GenerateEnabled(gen, v)
        /\ gen.clicks < MaxClicks
        /\ gen' = [gen EXCEPT !.generatingBarcodeFor = v,
                              !.clicks = @ + 1,
                              !.fetcher = gen.clicks + 1,
                              !.variantOf[gen.clicks + 1] = v,
                              !.atServer = @ \cup {gen.clicks + 1}]

\* The effect on [barcodeFetcher.data, shopify].
barcodeResponseEffect(g, v, success) ==
    IF success
    THEN [g EXCEPT !.hasBarcode[v] = TRUE, !.generatingBarcodeFor = null]
    ELSE [g EXCEPT !.generatingBarcodeFor = null]

\* The action answers a request; the answer reaches the page when the
\* request is still the fetcher's submission.
GenerateAnswered ==
    \E c \in gen.atServer, success \in BOOLEAN :
        LET g == [gen EXCEPT !.atServer = @ \ {c},
                             !.fetcher = IF @ = c THEN NoClick ELSE @]
        IN  gen' = IF gen.fetcher = c
                   THEN barcodeResponseEffect(g, gen.variantOf[c], success)
                   ELSE g

\* The page is opened on variants of which these have a barcode.
GenerateOpened(barcoded) ==
    \E has \in barcoded :
        gen = [generatingBarcodeFor |-> null,
               hasBarcode |-> has,
               clicks |-> 0, fetcher |-> NoClick,
               variantOf |-> [c \in Clicks |-> ""],
               atServer |-> {}]

GenerateInit == GenerateOpened([PageVariants -> BOOLEAN])

\* The page of a shop whose variants all have a barcode: no Generate button.
GenerateAtRest == GenerateOpened({[v \in PageVariants |-> TRUE]})

GenerateNext ==
    \/ ClickGenerate
    \/ GenerateAnswered

\* ============================================================ status filter

\* The values of the status parameter a page is opened with: NULL when the
\* URL has none, else the text between its commas.
StatusParams ==
    {NULL, <<"">>, <<"active">>, <<"draft">>, <<"ACTIVE">>, <<" draft ">>, <<"archived">>,
     <<"active", "draft">>, <<"draft", "active">>, <<"active", "active">>,
     <<"archived", "draft">>}

\* The statuses of the two filter buttons.
StatusButtons == {"active", "draft"}

\* The values typed in the search field of this page.
StatusSearches == {"", "a"}

VARIABLES
    st      \* activeStatuses, searchInput, the pending timer, the loader's last run

\* s.trim().toLowerCase()
trimLowerCase(s) ==
    CASE s = "ACTIVE" -> "active"
      [] s = " draft " -> "draft"
      [] OTHER -> s

\* s.toUpperCase()
toUpperCase(s) ==
    CASE s = "active" -> "ACTIVE"
      [] s = "draft" -> "DRAFT"
      [] OTHER -> s

\* s.toLowerCase()
toLowerCase(s) ==
    CASE s = "ACTIVE" -> "active"
      [] s = "DRAFT" -> "draft"
      [] OTHER -> s

\* Array.prototype.map, for the three conversions above.
RECURSIVE MapStatus(_, _)
MapStatus(seq, how) ==
    IF seq = <<>> THEN <<>>
    ELSE <<CASE how = "trimLowerCase" -> trimLowerCase(Head(seq))
             [] how = "toUpperCase" -> toUpperCase(Head(seq))
             [] OTHER -> toLowerCase(Head(seq))>> \o MapStatus(Tail(seq), how)

\* .filter(s => s === 'active' || s === 'draft')
RECURSIVE OnlyValid(_)
OnlyValid(seq) ==
    IF seq = <<>> THEN <<>>
    ELSE IF Head(seq) \in {"active", "draft"}
         THEN <<Head(seq)>> \o OnlyValid(Tail(seq))
         ELSE OnlyValid(Tail(seq))

\* Array.prototype.join(','), as the text between the commas of the result.
join(seq) == IF seq = <<>> THEN <<"">> ELSE seq

\* url.searchParams.get("status") || "active"
statusFilterOf(param) == IF param = NULL \/ param = <<"">> THEN <<"active">> ELSE param

\* loader: the statuses the products are queried with.
validStatuses(param) ==
    LET statuses == MapStatus(OnlyValid(MapStatus(statusFilterOf(param), "trimLowerCase")),
                              "toUpperCase")
    IN  IF Len(statuses) > 0 THEN statuses ELSE <<"ACTIVE">>

\* loader: the statusFilter it returns.
loaderStatusFilter(param) == join(MapStatus(validStatuses(param), "toLowerCase"))

\* The loader has run for a submission of these fields.
Loaded(search, status) == [search |-> search, statuses |-> validStatuses(status)]

\* History: a submission, and the statuses the page showed as active when it was sent.
Sent(by, status, shown) == [by |-> by, status |-> status, shown |-> shown]

\* The pending debounce timer: its callback's value and activeStatuses.
NoDebounce == [set |-> FALSE, value |-> "", activeStatuses |-> <<>>]

\* handleStatusToggle: the new activeStatuses.
newStatuses(activeStatuses, status) ==
    IF Includes(activeStatuses, status)
    THEN Filter(activeStatuses, Ids(activeStatuses) \ {status})
    ELSE Append(activeStatuses, status)

\* handleStatusToggle(status)
handleStatusToggle(status) ==
    IF Includes(st.activeStatuses, status) /\ Len(st.activeStatuses) = 1
    THEN st' = [st EXCEPT !.toggled = "refused"]
    ELSE LET new == newStatuses(st.activeStatuses, status)
         IN  st' = [st EXCEPT !.activeStatuses = new,
                              !.loaded = Loaded(st.searchInput, join(new)),
                              !.sent = Sent("toggle", join(new), new),
                              !.toggled = "applied"]

\* handleSearchChange on this page: the timer's callback keeps the
\* activeStatuses of the render the handler belongs to.
statusSearchChange(value) ==
    st' = [st EXCEPT !.searchInput = value,
                     !.timer = [set |-> TRUE, value |-> value,
                                activeStatuses |-> st.activeStatuses],
                     !.toggled = "none"]

\* The debounce timer fires: its callback submits.
StatusTimerFires ==
    /\ st.timer.set
    /\ st' = [st EXCEPT !.timer = NoDebounce,
                        !.loaded = Loaded(st.timer.value, join(st.timer.activeStatuses)),
                        !.sent = Sent("timer", join(st.timer.activeStatuses), st.activeStatuses),
                        !.toggled = "none"]

\* The page is opened with one of these parameters: the loader runs,
\* ExportPage mounts on its data.
StatusOpened(params) ==
    \E param \in params :
        st = [opened |-> param,
              activeStatuses |-> loaderStatusFilter(param),
              searchInput |-> "",
              timer |-> NoDebounce,
              loaded |-> Loaded("", param),
              sent |-> Sent("none", join(loaderStatusFilter(param)), loaderStatusFilter(param)),
              toggled |-> "none"]

StatusInit == StatusOpened(StatusParams)

\* The page opened without a status parameter, on which nothing is done.
StatusAtRest == StatusOpened({NULL})

StatusNext ==
    \/ \E status \in StatusButtons : handleStatusToggle(status)
    \/ \E value \in StatusSearches : statusSearchChange(value)
    \/ StatusTimerFires

\* ============================================================ action dispatch

\* ------------------------------------------------------------------ bounds
\* The requests the action receives.
MaxRequests == 2

\* The actionType fields of the requests: NULL when the form has none.
ActionTypes == {NULL, "", "export", "generateBarcode", "print"}

VARIABLES
    req     \* history: the request the action received last, and its branch

\* The branch of action() a request takes.
Branch_exportByDefault(actionType) ==
    IF actionType = "generateBarcode" THEN "generateBarcode" ELSE "export"
Branch(actionType) ==
    IF actionType = "generateBarcode" THEN "generateBarcode"
    ELSE IF actionType = "export" \/ Falsy(actionType) THEN "export"
    ELSE "invalid"

\* What the action answers to a request of no branch.
ResponseToInvalid == ErrorResponse("Invalid action type")

\* action({ request }): the request's fields are read and its branch runs
\* up to its first await.
action(i, a, actionType, exportData, variantId, productId) ==
    /\ req.n < MaxRequests
    /\ req' = [n |-> req.n + 1, actionType |-> actionType, branch |-> Branch(actionType),
               exportData |-> exportData, variantId |-> variantId, productId |-> productId,
               response |-> IF Branch(actionType) = "invalid"
                            THEN ResponseToInvalid ELSE NoResponse]
    /\ CASE Branch(actionType) = "generateBarcode" ->
                GenerateStart(a, variantId, productId) /\ UNCHANGED tokenVars
         [] Branch(actionType) = "export" ->
                ExportStart(i, exportData) /\ UNCHANGED allocVars
         [] OTHER -> UNCHANGED <<tokenVars, allocVars>>

RequestInit ==
    req = [n |-> 0, actionType |-> NULL, branch |-> "none", exportData |-> NULL,
           variantId |-> 0, productId |-> 0, response |-> NoResponse]

\* The requests of one page for one variant: variantId and productId are 0
\* when the form field is missing.
ActionSteps ==
    \/ \E actionType \in ActionTypes, exportData \in ExportDataInputs,
          variantId \in 0..1, productId \in 0..1 :
           action("i1", "a1", actionType, exportData, variantId, productId)
    \/ ExportCreate("i1") /\ UNCHANGED <<allocVars, req>>
    \/ ExportCreateFails("i1") /\ UNCHANGED <<allocVars, req>>
    \/ CheckResolves("a1") /\ UNCHANGED <<tokenVars, req>>
    \/ CheckThrows("a1") /\ UNCHANGED <<tokenVars, req>>
    \/ UpdateResolves("a1") /\ UNCHANGED <<tokenVars, req>>
    \/ UpdateUserErrors("a1") /\ UNCHANGED <<tokenVars, req>>
    \/ UpdateThrows("a1") /\ UNCHANGED <<tokenVars, req>>

\* --------------------------------------------------------------- specification
\* The state of the page in the browser.
clientVars == <<searchVars, pageVars, dl, gen, st>>

vars == <<now, downloadToken, issue, redeem, last, hist, catalog, alloc, req,
          clockMs, mounted, searchInput, debounceTimer, timers, typing, submits, fired,
          page, seen, unrendered, did, dl, gen, st>>

TokenInit ==
    /\ now = 0
    /\ downloadToken = {}
    /\ issue = [i \in Issuers |-> IdleIssue]
    /\ redeem = [r \in Redeemers |-> IdleRedeem]
    /\ last = NoLast
    /\ hist = [t \in Tokens |->
                   [generated |-> 0, inserted |-> 0, returned |-> 0, served |-> 0,
                    fate |-> "NONE", data |-> NULL, fileName |-> NoName,
                    insertedAt |-> 0]]

TokenNext ==
    \/ \E i \in Issuers, d \in ExportDataInputs : ExportStart(i, d)
    \/ \E i \in Issuers : ExportCreate(i)
    \/ \E i \in Issuers : ExportCreateFails(i)
    \/ \E r \in Redeemers, t \in Tokens \cup {NoToken} : RedeemStart(r, t)
    \/ \E r \in Redeemers : RedeemTake(r)
    \/ Sweep
    \/ \E t \in Instants : Tick(t)

\* A catalog in which no variant has a barcode, and no request.
EmptyCatalogInit ==
    /\ catalog = [v \in Variants |-> NoBarcode]
    /\ alloc = [a \in Allocators |-> IdleAlloc]

\* A page on which nothing is done.
ClientAtRest == SearchInit /\ PageAtRest /\ DownloadInit /\ GenerateAtRest /\ StatusAtRest

\* The download-token service; the catalog and the page are left alone.
Init == TokenInit /\ EmptyCatalogInit /\ RequestInit /\ ClientAtRest

Next == TokenNext /\ UNCHANGED <<allocVars, req, clientVars>>

Spec == Init /\ [][Next]_vars

\* The barcode allocator serving one request after the other, on any catalog
\* whose barcodes are none or some of the candidates.
AllocInit ==
    /\ TokenInit
    /\ RequestInit
    /\ ClientAtRest
    /\ catalog \in [Variants -> Candidates \cup {NoBarcode}]
    /\ alloc = [a \in Allocators |-> IdleAlloc]

AllocSteps ==
    \/ \E a \in Serial, v \in Variants \cup {0}, p \in {0, 1} : GenerateStart(a, v, p)
    \/ \E a \in Serial : CheckResolves(a)
    \/ \E a \in Serial : CheckThrows(a)
    \/ \E a \in Serial : UpdateResolves(a)
    \/ \E a \in Serial : UpdateUserErrors(a)
    \/ \E a \in Serial : UpdateThrows(a)

AllocNext == AllocSteps /\ UNCHANGED <<tokenVars, req, clientVars>>

SpecAlloc == AllocInit /\ [][AllocNext]_vars

\* Every awaited call of a request in flight is eventually answered.
AllocFairness ==
    \A a \in Serial :
        /\ WF_vars((CheckResolves(a) \/ CheckThrows(a)) /\ UNCHANGED <<tokenVars, req, clientVars>>)
        /\ WF_vars((UpdateResolves(a) \/ UpdateUserErrors(a) \/ UpdateThrows(a))
                       /\ UNCHANGED <<tokenVars, req, clientVars>>)

SpecAllocLive == SpecAlloc /\ AllocFairness

\* Two pages loaded from a catalog in which no variant has a barcode: each
\* offers Generate for every variant and makes one request; the two requests
\* run concurrently.
RaceSteps ==
    \/ \E a \in Allocators, v \in Variants :
           alloc[a].pc = "idle" /\ GenerateStart(a, v, 1)
    \/ \E a \in Allocators : CheckResolves(a)
    \/ \E a \in Allocators : CheckThrows(a)
    \/ \E a \in Allocators : UpdateResolves(a)
    \/ \E a \in Allocators : UpdateUserErrors(a)
    \/ \E a \in Allocators : UpdateThrows(a)

RaceNext == RaceSteps /\ UNCHANGED <<tokenVars, req, clientVars>>

SpecRace == Init /\ [][RaceNext]_vars

\* The search field of one mounted page.
SearchSpecNext ==
    SearchNext /\ UNCHANGED <<tokenVars, allocVars, req, pageVars, dl, gen, st>>

SpecSearch == Init /\ [][SearchSpecNext]_vars

\* The server's state, which the page's own steps leave alone.
serverVars == <<tokenVars, allocVars, req>>

\* The selection and the quantities of one page, on a shop of any stock,
\* every event rendered before the next is handled.
PageSpecInit ==
    /\ TokenInit /\ EmptyCatalogInit /\ RequestInit
    /\ SearchInit /\ PageInit /\ DownloadInit /\ GenerateAtRest /\ StatusAtRest

PageSpecNext == PageNext /\ UNCHANGED <<serverVars, searchVars, dl, gen, st>>

SpecPage == PageSpecInit /\ [][PageSpecNext]_vars

\* The page of a shop with some stock of every variant, when renders are late.
BatchSpecInit ==
    /\ TokenInit /\ EmptyCatalogInit /\ RequestInit
    /\ SearchInit /\ PageOpened({[v \in PageVariants |-> 2]})
    /\ DownloadInit /\ GenerateAtRest /\ StatusAtRest

BatchSpecNext == BatchNext /\ UNCHANGED <<serverVars, searchVars, dl, gen, st>>

SpecBatch == BatchSpecInit /\ [][BatchSpecNext]_vars

\* The export responses of one page.
DownloadSpecNext == DownloadNext /\ UNCHANGED <<serverVars, searchVars, pageVars, gen, st>>

SpecDownload == Init /\ [][DownloadSpecNext]_vars

\* The Generate buttons of one page.
GenerateSpecInit ==
    /\ TokenInit /\ EmptyCatalogInit /\ RequestInit
    /\ SearchInit /\ PageAtRest /\ DownloadInit /\ GenerateInit /\ StatusAtRest

GenerateSpecNext == GenerateNext /\ UNCHANGED <<serverVars, searchVars, pageVars, dl, st>>

SpecGenerate == GenerateSpecInit /\ [][GenerateSpecNext]_vars

\* The status filter of one page, opened with any status parameter.
StatusSpecInit ==
    /\ TokenInit /\ EmptyCatalogInit /\ RequestInit
    /\ SearchInit /\ PageAtRest /\ DownloadInit /\ GenerateAtRest /\ StatusInit

StatusSpecNext == StatusNext /\ UNCHANGED <<serverVars, searchVars, pageVars, dl, gen>>

SpecStatus == StatusSpecInit /\ [][StatusSpecNext]_vars

\* The action serving the requests of one page, of any actionType.
ActionNext == ActionSteps /\ UNCHANGED clientVars

SpecAction == Init /\ [][ActionNext]_vars

\* ===================================================================== claims

\* The payload the claims call missing or empty.
MissingOrEmpty(x) == x = NULL \/ x = ""

\* A download request for a token that an export had returned and that no
\* Redeem or Sweep had touched since.
Found(l) == l.op = "download" /\ l.pending

\* What a caller of the download route receives for a token never issued.
RejectedReply == Reply("unknown", "", NoName)

\* PENDING while the row exists; otherwise what became of the token.
TokenState(t) == IF RowsOf(downloadToken, t) # {} THEN "PENDING" ELSE hist[t].fate

C2_RedeemReturnsIssuedPayload ==
    (Found(last) /\ last.age <= EXPIRY_SECONDS) =>
        /\ last.reply.status = 200
        /\ last.reply.payload = last.exportData
        /\ last.reply.artifactName = last.fileName
        /\ ~MissingOrEmpty(last.reply.payload)

\* C2 witness: a token is redeemed exactly 15 minutes after it was issued
\* and serves the second payload, while the row of the other payload is live.
C2_Witness ==
    /\ Found(last)
    /\ last.age = EXPIRY_SECONDS
    /\ last.reply.status = 200
    /\ last.reply.payload = "[{b:2}]"
    /\ \E row \in downloadToken : row.data = "[{a:1}]"

\* C3: a Redeem of a token older than 15 minutes fails and leaves no row (a
\* later Redeem of it fails too); a Redeem of a token at most 15 minutes old
\* succeeds.
C3_ExpiryAtFifteenMinutes ==
    /\ Found(last) =>
          IF last.age > EXPIRY_SECONDS
          THEN /\ last.reply.status # 200
               /\ last.reply.payload = ""
               /\ RowsOf(downloadToken, last.token) = {}
          ELSE last.reply.status = 200
    /\ (last.op = "download" /\ last.cause = "discarded") => last.reply.status # 200
    /\ \A t \in Tokens : hist[t].fate = "EXPIRED" => RowsOf(downloadToken, t) = {}

\* C3 witness: a token is redeemed 15 minutes and one second after its row
\* was written.
C3_Witness ==
    /\ Found(last)
    /\ last.age = EXPIRY_SECONDS + 1
    /\ last.cause = "expired"

C6_TokensAreUnique ==
    \A t \in Tokens :
        /\ Cardinality(RowsOf(downloadToken, t)) <= 1
        /\ hist[t].returned <= 1

\* C6 witness: two exports ran concurrently and both rows are live.
C6_Witness ==
    /\ Cardinality(downloadToken) = 2
    /\ \A row \in downloadToken : row.createdAt = now /\ hist[row.token].returned = 1
    /\ \A i \in Issuers : issue[i].pc = "idle"

\* C7: a token is handed to a caller only once its row has been written: the
\* row of every returned token exists or has been deleted by Redeem or Sweep,
\* and an export whose store write failed returns no token.
C7_PersistedBeforeReturned ==
    /\ \A t \in Tokens :
          hist[t].returned > 0 =>
              /\ hist[t].inserted > 0
              /\ TokenState(t) \in {"PENDING", "CONSUMED", "EXPIRED"}
    /\ (last.op = "export" /\ last.inserted = 0) =>
          /\ last.response.kind # "success"
          /\ last.response.downloadUrl = <<>>

\* C7 witness: the store write of an export with data has just failed.
C7_Witness ==
    /\ last.op = "export"
    /\ last.response.kind = "thrown"
    /\ ~MissingOrEmpty(last.exportData)

\* C8 as stated: an export with a missing or empty payload fails with the
\* validation error, generates no token and inserts no row; an export with a
\* non-empty payload inserts exactly one row.
C8_AsStated ==
    last.op = "export" =>
        IF MissingOrEmpty(last.exportData)
        THEN /\ last.response = ErrorResponse("No export data provided")
             /\ last.token = NoToken
             /\ last.inserted = 0
        ELSE last.inserted = 1

\* C8 amended: ... an export with a non-empty payload inserts exactly one row
\* when the store write succeeds, and none when the store write fails (the
\* export then fails).
C8_ValidationAndOneRow ==
    last.op = "export" =>
        IF MissingOrEmpty(last.exportData)
        THEN /\ last.response = ErrorResponse("No export data provided")
             /\ last.token = NoToken
             /\ last.inserted = 0
        ELSE \/ last.response.kind = "success" /\ last.inserted = 1
             \/ last.response.kind = "thrown" /\ last.inserted = 0

\* C8 witness: an export with an empty (not missing) payload was refused.
C8_Witness ==
    /\ last.op = "export"
    /\ last.exportData = ""
    /\ last.response.kind = "error"
    /\ downloadToken = {}

FreeAtNth(rec) ==
    /\ rec.pc = "done"
    /\ rec.lastAnswer = "free"
    /\ rec.collisions = rec.checks - 1
    /\ rec.checks <= maxAttempts

AlwaysCollides == \A c \in Candidates : checkBarcodeExists(catalog, c)

\* C11: when every existence check of a request reports a collision, the
\* request fails with the exhaustion error after exactly maxAttempts checks
\* and has written nothing to the catalog.
C11_ExhaustedAfterMaxAttempts ==
    \A a \in Allocators :
        /\ (alloc[a].pc = "done" /\ alloc[a].checks > 0
                /\ alloc[a].collisions = alloc[a].checks) =>
              /\ alloc[a].kind = "error"
              /\ alloc[a].error = ExhaustedMessage
              /\ alloc[a].returned = NoBarcode
              /\ alloc[a].checks = maxAttempts
              /\ alloc[a].writes = 0
        /\ (alloc[a].pc = "done" /\ alloc[a].error = ExhaustedMessage) =>
              alloc[a].collisions = maxAttempts

\* C11 witness: on a catalog that holds every candidate a request has been
\* refused after ten checks.
C11_Witness ==
    /\ AlwaysCollides
    /\ \E a \in Allocators :
          /\ alloc[a].pc = "done"
          /\ alloc[a].error = ExhaustedMessage
          /\ alloc[a].checks = maxAttempts

C13_TerminatesWithinMaxAttempts ==
    /\ [](\A a \in Allocators : alloc[a].checks <= maxAttempts)
    /\ \A a \in Serial :
          (alloc[a].pc \in {"checking", "updating"}) ~> (alloc[a].pc = "done")

\* C13 witness: a request ended with its tenth check although a candidate
\* was free.
C13_Witness ==
    /\ ~AlwaysCollides
    /\ \E a \in Allocators :
          /\ alloc[a].pc = "done"
          /\ alloc[a].checks = maxAttempts
          /\ alloc[a].lastAnswer = "exists"

\* C14: when the existence query itself fails the request ends at once with
\* the catalog error: the failure is not counted as a collision, no further
\* candidate is drawn and nothing is written.
C14_CheckFailureEndsTheRequest ==
    \A a \in Allocators :
        alloc[a].lastAnswer = "failed" =>
            /\ alloc[a].pc = "done"
            /\ alloc[a].kind = "error"
            /\ alloc[a].error = "Failed to verify barcode uniqueness"
            /\ alloc[a].returned = NoBarcode
            /\ alloc[a].collisions = alloc[a].checks - 1
            /\ alloc[a].attempt = alloc[a].checks - 1
            /\ alloc[a].barcode = alloc[a].lastChecked
            /\ alloc[a].update = "none"
            /\ alloc[a].writes = 0

\* C14 witness: two collisions, then the third existence query failed.
C14_Witness ==
    \E a \in Allocators :
        /\ alloc[a].lastAnswer = "failed"
        /\ alloc[a].checks = 3
        /\ alloc[a].collisions = 2
        /\ alloc[a].pc = "done"

\* C15: when the update call throws or answers with user errors the request
\* answers with an error and no barcode; a request that answers success
\* returns the barcode the variant now carries.
C15_UpdateFailureIsSurfaced ==
    \A a \in Allocators :
        /\ alloc[a].update \in {"userErrors", "threw"} =>
              /\ alloc[a].pc = "done"
              /\ alloc[a].kind = "error"
              /\ alloc[a].error # ""
              /\ alloc[a].returned = NoBarcode
        /\ alloc[a].kind = "success" =>
              /\ alloc[a].update = "stored"
              /\ alloc[a].returned # NoBarcode
              /\ catalog[alloc[a].variantId] = alloc[a].returned

\* C15 witness: the update answered with user errors; the variant still has
\* no barcode and the request answered with an error.
C15_Witness ==
    \E a \in Allocators :
        /\ alloc[a].update = "userErrors"
        /\ alloc[a].lastAnswer = "free"
        /\ alloc[a].kind = "error"
        /\ catalog[alloc[a].variantId] = NoBarcode

\* C16: no two variants of the catalog carry the same generated barcode,
\* also when requests run concurrently.
C16_NoDuplicateBarcodes ==
    \A v1, v2 \in Variants :
        (v1 # v2 /\ catalog[v1] # NoBarcode) => catalog[v1] # catalog[v2]

\* A string of eight decimal digits, the first not 0.
EightDigits(s) ==
    /\ Len(s) = 8
    /\ s[1] \in 1..9
    /\ \A i \in 2..8 : s[i] \in 0..9

\* The number a string of decimal digits denotes.
RECURSIVE DigitsValue(_)
DigitsValue(s) ==
    IF s = <<>> THEN 0 ELSE 10 * DigitsValue(SubSeq(s, 1, Len(s) - 1)) + s[Len(s)]

\* An 8-digit decimal string of an integer in [10000000, 99999999].
InRange(s) ==
    /\ EightDigits(s)
    /\ DigitsValue(s) >= 10000000
    /\ DigitsValue(s) <= 99999999

\* Every sample of Math.random() gives an integer in [10000000, 99999999]
\* whose string denotes it.
EverySampleInRange ==
    \A n \in 0..(RandomGrain - 1) :
        /\ generateRandomBarcode(n) >= 10000000
        /\ generateRandomBarcode(n) <= 99999999
        /\ DigitsValue(toString(generateRandomBarcode(n))) = generateRandomBarcode(n)

\* C17: every candidate drawn, checked, returned or stored is an integer in
\* [10000000, 99999999] written as eight decimal digits with no leading zero.
C17_CandidatesAreEightDigits ==
    /\ EverySampleInRange
    /\ \A a \in Allocators :
          \A s \in {alloc[a].barcode, alloc[a].lastChecked, alloc[a].returned} :
              s # NoBarcode => InRange(s)
    /\ \A v \in Variants : catalog[v] # NoBarcode => InRange(catalog[v])

\* C17 witness: the largest candidate, 99999999, has been stored and returned
\* while another variant carries the smallest, 10000000.
C17_Witness ==
    \E a \in Allocators :
        /\ alloc[a].kind = "success"
        /\ alloc[a].returned = <<9, 9, 9, 9, 9, 9, 9, 9>>
        /\ catalog[alloc[a].variantId] = <<9, 9, 9, 9, 9, 9, 9, 9>>
        /\ \E v \in Variants : catalog[v] = <<1, 0, 0, 0, 0, 0, 0, 0>>

\* C18: no generateBarcode request replaces a barcode a variant already has.
C18_OnlyFillsMissingBarcodes ==
    \A a \in Allocators : alloc[a].replaced = NoBarcode

C20_SearchIsDebounced ==
    /\ Cardinality(timers) <= 1
    /\ \A b \in Bursts : submits[b] <= 1
    /\ fired.op = "submit" =>
          /\ fired.sinceKey >= DEBOUNCE_MS
          /\ fired.value = fired.shown
          /\ fired.mounted
    /\ ~mounted => timers = {}

\* C20 witness: "a" and "ab" were typed 250 ms apart; one submission, of
\* "ab", was made 500 ms after the second keystroke.
C20_Witness ==
    /\ fired.op = "submit"
    /\ fired.value = "ab"
    /\ fired.sinceKey = DEBOUNCE_MS
    /\ typing.keys = 2
    /\ typing.burst = 1
    /\ submits[1] = 1

\* C21: after any accepted quantity change for a variant (stepper, quick-set
\* or direct value) the variant is in the selection and has the new
\* quantity, whatever the selection was before.
C21_QuantityChangeSelects ==
    (did.op = "quantity" /\ did.value \in 0..MAX_QUANTITY) =>
        /\ Includes(page.selectedIds, did.variant)
        /\ page.labelQuantities[did.variant] = did.value

\* C21 witness: a quantity change has added its variant to a selection that
\* held the other variant only.
C21_Witness ==
    /\ did.op = "quantity"
    /\ did.value \in 0..MAX_QUANTITY
    /\ Len(page.selectedIds) = 2
    /\ page.selectedIds[2] = did.variant

\* C22: whenever handleExport submits, the submitted exportData has at
\* least one row, for every selection, customized quantity and inventory.
C22_SubmittedExportHasRows ==
    did.submitted => Total(did.exportData, PageVariants) > 0

\* C23: the label total shown (Export button, sticky action bar, export
\* toast) is the number of rows handleExport submits.
C23_ShownTotalIsRowCount ==
    did.submitted =>
        /\ did.shownTotal = Total(did.exportData, PageVariants)
        /\ did.toastTotal = Total(did.exportData, PageVariants)

\* C24: no variant contributes more than 1000 rows to a submitted export.
C24_AtMostMaxRowsPerVariant ==
    did.submitted => \A v \in PageVariants : did.exportData[v] <= MAX_QUANTITY

\* C25: for each download URL the hidden iframe is created at most once,
\* however often the export-response effect runs again.
C25_DownloadStartsOncePerUrl ==
    \A u \in Urls : dl.created[u] <= 1

\* C25 witness: the effect has run again on a response whose download had
\* been started.
C25_Witness ==
    /\ dl.data.kind = "success"
    /\ dl.reran
    /\ dl.created[dl.data.downloadUrl] = 1

\* An actionType that names no branch of the action.
UnknownType(actionType) == actionType \notin {NULL, "", "export", "generateBarcode"}

\* C26: a request of unknown actionType, or generateBarcode without
\* variantId or productId, is answered with an error and leaves the token
\* table, the catalog and every request in flight as they were, with no
\* existence check made; a request with no actionType is handled as an export.
C26_RejectedRequestsDoNothing ==
    [][req'.n # req.n =>
          /\ UnknownType(req'.actionType) =>
                /\ req'.response = ErrorResponse("Invalid action type")
                /\ UNCHANGED <<downloadToken, hist, issue, catalog, alloc>>
          /\ (req'.actionType = "generateBarcode"
                /\ (req'.variantId = 0 \/ req'.productId = 0)) =>
                /\ alloc'["a1"].kind = "error"
                /\ alloc'["a1"].error = "No variant ID or product ID provided"
                /\ alloc'["a1"].checks = 0
                /\ alloc'["a1"].writes = 0
                /\ alloc'["a1"].pc = "done"
                /\ UNCHANGED <<downloadToken, hist, issue, catalog>>
          /\ (req'.actionType \in {NULL, ""}) =>
                IF MissingOrEmpty(req'.exportData)
                THEN /\ last'.op = "export"
                     /\ last'.response = ErrorResponse("No export data provided")
                     /\ UNCHANGED <<downloadToken, hist, issue, catalog, alloc>>
                ELSE /\ issue'["i1"].pc = "creating"
                     /\ issue'["i1"].exportData = req'.exportData
                     /\ UNCHANGED <<catalog, alloc>>
      ]_vars

\* C26 witness: a request of unknown actionType was answered while the
\* token table held a row.
C26_Witness ==
    /\ req.actionType = "print"
    /\ req.response = ErrorResponse("Invalid action type")
    /\ downloadToken # {}

\* C27: the active status set is a non-empty subset of {active, draft}.
C27_AStatusIsAlwaysActive ==
    /\ st.activeStatuses # <<>>
    /\ Ids(st.activeStatuses) \subseteq {"active", "draft"}

C29_SubmissionCarriesShownStatus ==
    st.sent.status = join(st.sent.shown)

\* C30: the server never has two unanswered generation requests of the
\* same variant from one page.
C30_OneRequestPerVariant ==
    \A v \in PageVariants : Cardinality(InFlight(gen, v)) <= 1

====
